---- MODULE Spec2Model ----
(***************************************************************************)
(* Model of searchy's face identity engine, FaceRecognitionService in      *)
(* src/searchy/face_recognition_service.py, with the HTTP entry points of  *)
(* src/searchy/server.py that call it.                                     *)
(*                                                                         *)
(* A FaceData object is a pair <<face_id, copy>>: two objects with the     *)
(* same face_id are distinct Python objects (a rescan builds new FaceData  *)
(* for a face whose old object is still referenced by the orphan list).    *)
(* The lists self.faces, cluster.faces and self.orphaned_faces hold        *)
(* references, so the verified flag is kept per object in "verified".      *)
(*                                                                         *)
(* Embeddings are integer vectors of dimension 2.  A cosine similarity is  *)
(* kept exactly, as the pair num / sqrt(den2); a threshold t is given in   *)
(* hundredths (60 for 0.60).  Floating point rounding is not modelled.     *)
(***************************************************************************)
EXTENDS Integers, Sequences, FiniteSets, TLC

\* ---------------------------------------------------------------- bounds
\* the faces (and images) of the photo collection
NumFaces == 3
\* the calls made to the service in one run
MaxCalls == 4

FaceIds == 1..NumFaces
\* Image p of the photo index shows the one face p.
Images == FaceIds
\* every completed scan can build one more FaceData object for a face id
Copies == 1..MaxCalls

FaceIdOf(o) == o[1]

\* ------------------------------------------------------- program constants
DefaultClusterThreshold == 65
DefaultFindThreshold == 60
DefaultReclusterThreshold == 60
ServerReclusterThreshold == 55
ClusterBatchSize == 500

\* Thresholds a caller of /face-recluster passes (any float is accepted).
ClusterThresholds == {ServerReclusterThreshold, 80, 90}
ReclusterThresholds == {DefaultReclusterThreshold}

\* Names: a default name is <<"Person", i>>, a custom name <<name, 0>>.
CustomNames == {<<"Alice", 0>>}
DefaultName(i) == <<"Person", i>>

ClusterIdOf(face_id) == <<"cluster", face_id>>
ClusterIds == {ClusterIdOf(i) : i \in FaceIds}

\* The photo collection: the embedding the ArcFace model yields for each face.
\* Face 2 is at cosine 0.60 of face 1 and 0.80 of face 3; faces 1 and 3 are at 0:
\* a chain at threshold 0.55, two clusters at 0.65, three at 0.90.
EmbeddingPools == { << <<1, 0>>, <<3, 4>>, <<0, 1>>, <<-1, 0>> >> }
Worlds == {[i \in FaceIds |-> pool[((i - 1) % Len(pool)) + 1]] : pool \in EmbeddingPools}

VARIABLES
    embedding,             \* face_id -> embedding vector (FaceData.embedding)
    faces,                 \* self.faces: sequence of objects
    scanned_paths,         \* self.scanned_paths
    clusters,              \* self.clusters: sequence of [cluster_id, name, faces]
    custom_names,          \* self.custom_names: cluster_id -> name
    negative_constraints,  \* self.negative_constraints: face_id -> list of cluster ids
    orphaned_faces,        \* self.orphaned_faces: sequence of objects
    verified,              \* the objects whose FaceData.verified is True
    last,                  \* the last call and what it returned
    calls,                 \* the number of calls made so far
    renamed,               \* cluster_id -> the name a successful rename_cluster gave it
    is_scanning,           \* self.is_scanning
    stop_scan,             \* self.stop_scan
    scan_thread,           \* the background threads of start_face_scan: where each
                           \* is in scan_images, and its local variables
    request,               \* the verify_face request that has found its cluster
                           \* and face and has not yet applied the correction
    disk                   \* the files of data_dir: what a new process loads

vars == <<embedding, faces, scanned_paths, clusters, custom_names,
          negative_constraints, orphaned_faces, verified, last, calls, renamed,
          is_scanning, stop_scan, scan_thread, request, disk>>

\* ------------------------------------------------------------ sequences
Range(s) == {s[i] : i \in DOMAIN s}

InSeq(x, s) == \E i \in DOMAIN s : s[i] = x

\* next((f for f in faces if f.face_id == face_id), None): index of the first match, 0 for None
FaceIndex(fs, face_id) ==
    IF \E i \in DOMAIN fs : fs[i][1] = face_id
    THEN CHOOSE i \in DOMAIN fs :
             fs[i][1] = face_id /\ \A j \in 1..(i - 1) : fs[j][1] # face_id
    ELSE 0

\* ------------------------------------------------------ vector arithmetic
Dot(a, b) == a[1] * b[1] + a[2] * b[2]
Norm2(a) == Dot(a, a)

RECURSIVE VecSum(_)
VecSum(vs) ==
    IF vs = <<>> THEN <<0, 0>>
    ELSE LET r == VecSum(Tail(vs)) IN <<Head(vs)[1] + r[1], Head(vs)[2] + r[2]>>

\* A similarity is the real number num / sqrt(den2), den2 > 0.
ThresholdSim(t) == [num |-> t, den2 |-> 10000]

SimGT(a, b) ==
    CASE a.num >= 0 /\ b.num >= 0 -> a.num * a.num * b.den2 > b.num * b.num * a.den2
      [] a.num >= 0 /\ b.num < 0 -> TRUE
      [] a.num < 0 /\ b.num >= 0 -> FALSE
      [] OTHER -> a.num * a.num * b.den2 < b.num * b.num * a.den2

\* (variant: the comparison the other way round)
SimLE(a, b) == ~SimGT(a, b)

SimGE(a, b) == ~SimGT(b, a)

\* cluster_faces: rows are divided by their norm, a zero norm replaced by 1
PairSim(a, b) ==
    [num |-> Dot(a, b),
     den2 |-> (IF Norm2(a) = 0 THEN 1 ELSE Norm2(a)) * (IF Norm2(b) = 0 THEN 1 ELSE Norm2(b))]

\* np.mean(embeddings) divided by its norm when the norm is > 0, dotted with
\* the face embedding divided by its norm.  The mean has the direction of the sum.
CentroidSim(e, member_embeddings) ==
    LET s == VecSum(member_embeddings) IN
    IF Norm2(s) = 0 THEN [num |-> 0, den2 |-> 1]
    ELSE [num |-> Dot(e, s), den2 |-> Norm2(e) * Norm2(s)]

\* ------------------------------------------------------------ face objects
EmbeddingOf(o) == embedding[FaceIdOf(o)]

RECURSIVE EmbeddingsOf(_)
EmbeddingsOf(fs) ==
    IF fs = <<>> THEN <<>> ELSE <<EmbeddingOf(Head(fs))>> \o EmbeddingsOf(Tail(fs))

HasFaceId(fs, face_id) == \E i \in DOMAIN fs : FaceIdOf(fs[i]) = face_id

FaceCluster(cluster_id, name, fs) == [cluster_id |-> cluster_id, name |-> name, faces |-> fs]

\* "no cluster": what next(..., None) and _find_best_cluster_for_face give for None
NoCluster == <<"none", 0>>

ClusterIndex(cs, cluster_id) ==
    IF \E i \in DOMAIN cs : cs[i].cluster_id = cluster_id
    THEN CHOOSE i \in DOMAIN cs :
             cs[i].cluster_id = cluster_id
             /\ \A j \in 1..(i - 1) : cs[j].cluster_id # cluster_id
    ELSE 0

\* ------------------------------------------------------------- union-find
\* find(x): the root of x
RECURSIVE Root(_, _)
Root(parent, x) == IF parent[x] = x THEN x ELSE Root(parent, parent[x])

\* find(x): the parent array it leaves (path compression)
RECURSIVE Compress(_, _)
Compress(parent, x) ==
    IF parent[x] = x THEN parent
    ELSE [Compress(parent, parent[x]) EXCEPT ![x] = Root(parent, x)]

Union(parent, x, y) ==
    LET px == Root(parent, x)
        p1 == Compress(parent, x)
        py == Root(p1, y)
        p2 == Compress(p1, y)
    IN  IF px # py THEN [p2 EXCEPT ![px] = py] ELSE p2

\* one row of "similarities": columns rj, global_j = i + rj, up to the last face
RECURSIVE UnionRow(_, _, _, _, _)
UnionRow(parent, embs, threshold, global_i, global_j) ==
    IF global_j > Len(embs) THEN parent
    ELSE UnionRow(
            IF global_j > global_i
               /\ SimGE(PairSim(embs[global_i], embs[global_j]), ThresholdSim(threshold))
            THEN Union(parent, global_i, global_j) ELSE parent,
            embs, threshold, global_i, global_j + 1)

\* (variant: a block is compared with its own columns only)
RECURSIVE UnionBlockOwnColumns(_, _, _, _, _, _)
UnionBlockOwnColumns(parent, embs, threshold, i, global_i, end_i) ==
    IF global_i > end_i THEN parent
    ELSE UnionBlockOwnColumns(
            UnionRow(parent, SubSeq(embs, 1, end_i), threshold, global_i, i),
            embs, threshold, i, global_i + 1, end_i)

\* the rows global_i .. end_i of the block that starts at row i
RECURSIVE UnionBlock(_, _, _, _, _, _)
UnionBlock(parent, embs, threshold, i, global_i, end_i) ==
    IF global_i > end_i THEN parent
    ELSE UnionBlock(UnionRow(parent, embs, threshold, global_i, i),
                    embs, threshold, i, global_i + 1, end_i)

\* for i in range(0, n, batch_size), rows counted from 1 here
RECURSIVE UnionBlocks(_, _, _, _, _)
UnionBlocks(parent, embs, threshold, batch_size, i) ==
    IF i > Len(embs) THEN parent
    ELSE LET end_i == IF i + batch_size - 1 < Len(embs) THEN i + batch_size - 1 ELSE Len(embs)
         IN  UnionBlocks(UnionBlock(parent, embs, threshold, i, i, end_i),
                         embs, threshold, batch_size, i + batch_size)

ClusterParents(embs, threshold, batch_size) ==
    UnionBlocks([x \in 1..Len(embs) |-> x], embs, threshold, batch_size, 1)

\* clusters_dict: its keys (roots) in insertion order
RECURSIVE GroupRoots(_, _)
GroupRoots(parent, idx) ==
    IF idx = 0 THEN <<>>
    ELSE LET before == GroupRoots(parent, idx - 1)
             root == Root(parent, idx)
         IN  IF InSeq(root, before) THEN before ELSE Append(before, root)

\* (variant: the faces of one root in reverse face list order)
GroupFacesReversed(fs, parent, root) ==
    LET idxs == SelectSeq([i \in 1..Len(fs) |-> i], LAMBDA i : Root(parent, i) = root)
    IN  [k \in 1..Len(idxs) |-> fs[idxs[Len(idxs) + 1 - k]]]

\* clusters_dict[root]: the faces of one root, in face list order
GroupFaces(fs, parent, root) ==
    LET idxs == SelectSeq([i \in 1..Len(fs) |-> i], LAMBDA i : Root(parent, i) = root)
    IN  [k \in 1..Len(idxs) |-> fs[idxs[k]]]

\* list.sort(key=face_count, reverse=True) is stable: equal counts keep their order
InsertByCount(c, sorted) ==
    LET ahead == SelectSeq(sorted, LAMBDA d : Len(d.faces) >= Len(c.faces))
        behind == SelectSeq(sorted, LAMBDA d : Len(d.faces) < Len(c.faces))
    IN  ahead \o <<c>> \o behind

RECURSIVE SortByFaceCount(_)
SortByFaceCount(cs) ==
    IF cs = <<>> THEN <<>>
    ELSE InsertByCount(cs[Len(cs)], SortByFaceCount(SubSeq(cs, 1, Len(cs) - 1)))

CustomNameOr(names, cluster_id, default_name) ==
    IF cluster_id \in DOMAIN names THEN names[cluster_id] ELSE default_name

\* cluster_faces(similarity_threshold): the new self.clusters
ClusterFaces(fs, threshold, names) ==
    IF fs = <<>> THEN <<>>
    ELSE LET parent == ClusterParents(EmbeddingsOf(fs), threshold, ClusterBatchSize)
             roots == GroupRoots(parent, Len(fs))
             made == [i \in 1..Len(roots) |->
                        LET members == GroupFaces(fs, parent, roots[i])
                            cluster_id == ClusterIdOf(FaceIdOf(members[1]))
                        IN  FaceCluster(cluster_id,
                                        CustomNameOr(names, cluster_id, DefaultName(i)),
                                        members)]
         IN  SortByFaceCount(made)

\* "if not self.clusters and self.faces: self.cluster_faces()"
EnsureClusters(cs, fs, names) ==
    IF cs = <<>> /\ fs # <<>> THEN ClusterFaces(fs, DefaultClusterThreshold, names) ELSE cs

\* ------------------------------------------------------ re-homing resolver
ConstraintsOf(constraints, face_id) ==
    IF face_id \in DOMAIN constraints THEN constraints[face_id] ELSE <<>>

\* _compute_cluster_centroid(cluster, prefer_verified=True): the faces it averages
CentroidFaces(cluster, ver) ==
    LET verified_faces == SelectSeq(cluster.faces, LAMBDA f : f \in ver)
    IN  IF verified_faces # <<>> THEN verified_faces ELSE cluster.faces

\* the loop of _find_best_cluster_for_face from cluster k on
RECURSIVE FindBestFrom(_, _, _, _, _, _, _, _)
FindBestFrom(face, cs, exclude_cluster_ids, constrained_clusters, ver, k, best_cluster_id, best_similarity) ==
    IF k > Len(cs) THEN best_cluster_id
    ELSE LET cluster == cs[k]
             similarity == CentroidSim(EmbeddingOf(face),
                                       EmbeddingsOf(CentroidFaces(cluster, ver)))
             skip == \/ InSeq(cluster.cluster_id, exclude_cluster_ids)
                     \/ InSeq(cluster.cluster_id, constrained_clusters)
                     \/ cluster.faces = <<>>
         IN  IF ~skip /\ SimGT(similarity, best_similarity)
             THEN FindBestFrom(face, cs, exclude_cluster_ids, constrained_clusters, ver,
                               k + 1, cluster.cluster_id, similarity)
             ELSE FindBestFrom(face, cs, exclude_cluster_ids, constrained_clusters, ver,
                               k + 1, best_cluster_id, best_similarity)

FindBestClusterForFace(face, cs, exclude_cluster_ids, constraints, ver, similarity_threshold) ==
    IF cs = <<>> THEN NoCluster
    ELSE FindBestFrom(face, cs, exclude_cluster_ids,
                      ConstraintsOf(constraints, FaceIdOf(face)), ver, 1,
                      NoCluster, ThresholdSim(similarity_threshold))

\* ------------------------------------------------------------ dictionaries
EmptyDict == [x \in {} |-> x]
DictSet(d, k, v) == [x \in DOMAIN d \cup {k} |-> IF x = k THEN v ELSE d[x]]
\* (variant: the key is left in the dictionary)
DictDelKeep(d, k) == d
\* "if k in d: del d[k]"
DictDel(d, k) == [x \in DOMAIN d \ {k} |-> d[x]]

\* every object some list still refers to
Live(fs, cs, orphans) ==
    Range(fs) \cup Range(orphans) \cup UNION {Range(cs[i].faces) : i \in DOMAIN cs}

\* what the last call was and what it returned: face_id is 0 and a cluster id
\* NoCluster where the call has none; "other" is the merge target, the new home
\* of a rejected face, for a rename the source of the merge it follows, and for
\* cluster_faces the threshold used (cluster_id then is the threshold of the
\* cluster_faces pass it follows)
Returned(op, status, face_id, cluster_id, other) ==
    [op |-> op, status |-> status, face_id |-> face_id, cluster_id |-> cluster_id,
     other |-> other]

\* ------------------------------------------------------------------ storage
\* FaceData.to_dict: the fields that differ between the objects of the model
ToDict(o, ver) == [face_id |-> FaceIdOf(o), verified |-> o \in ver]

\* [f.to_dict() for f in fs]
ToDicts(fs, ver) == [k \in DOMAIN fs |-> ToDict(fs[k], ver)]

\* data_dir before the first save: no file exists
NoFiles ==
    [faces |-> <<>>, scanned_paths |-> {}, custom_names |-> EmptyDict,
     negative_constraints |-> EmptyDict, orphaned_faces |-> <<>>]

\* _save_faces
SaveFaces(d, fs, ver) == [d EXCEPT !.faces = ToDicts(fs, ver)]
\* _save_scanned_paths
SaveScannedPaths(d, paths) == [d EXCEPT !.scanned_paths = paths]
\* _save_custom_names
SaveCustomNames(d, names) == [d EXCEPT !.custom_names = names]
\* _save_constraints
SaveConstraints(d, constraints) == [d EXCEPT !.negative_constraints = constraints]
\* _save_orphaned_faces
SaveOrphanedFaces(d, orphans, ver) == [d EXCEPT !.orphaned_faces = ToDicts(orphans, ver)]

\* the saves of verify_face with is_correct = False (lines 359, 386, 395, 398);
\* r is the result of RejectFace and ver the verified flags after it
SaveRejection(d, r, fs, names, ver) ==
    LET d1 == SaveConstraints(d, r.negative_constraints)
        d2 == IF r.new_cluster_id = NoCluster
              THEN SaveOrphanedFaces(d1, r.orphaned_faces, ver) ELSE d1
        d3 == IF r.custom_names # names THEN SaveCustomNames(d2, r.custom_names) ELSE d2
    IN  SaveFaces(d3, fs, ver)

\* --------------------------------------------------------- human corrections
\* (variant: the cluster id is appended whether or not it is listed)
AddConstraintAlways(constraints, face_id, cluster_id) ==
    DictSet(constraints, face_id, Append(ConstraintsOf(constraints, face_id), cluster_id))

\* verify_face, lines 355-358: negative_constraints[face_id].append(cluster_id) once
AddConstraint(constraints, face_id, cluster_id) ==
    LET old == ConstraintsOf(constraints, face_id)
    IN  DictSet(constraints, face_id,
                IF InSeq(cluster_id, old) THEN old ELSE Append(old, cluster_id))

\* (variant: the rejected face is left in the member list)
RemoveFaceIdKeep(fs, face_id) == fs

\* [f for f in cluster.faces if f.face_id != face_id]
RemoveFaceId(fs, face_id) == SelectSeq(fs, LAMBDA f : FaceIdOf(f) # face_id)

\* (variant: the cluster is left in the list)
DropClusterNever(cs, cluster_id) == cs

\* [c for c in self.clusters if c.cluster_id != cluster_id]
DropCluster(cs, cluster_id) == SelectSeq(cs, LAMBDA c : c.cluster_id # cluster_id)

\* verify_face with is_correct = False, from line 353 on; ci is the cluster's
\* index in cs and face the object found in it
RejectFace(cs, ci, face, names, constraints, orphans, ver) ==
    LET cluster_id == cs[ci].cluster_id
        face_id == FaceIdOf(face)
        nc == AddConstraint(constraints, face_id, cluster_id)
        cs1 == [cs EXCEPT ![ci].faces = RemoveFaceId(@, face_id)]
        new_cluster_id == FindBestClusterForFace(face, cs1, <<cluster_id>>, nc, ver,
                                                 DefaultFindThreshold)
        ni == ClusterIndex(cs1, new_cluster_id)
        found == new_cluster_id # NoCluster
        cs2 == IF found /\ ni # 0 THEN [cs1 EXCEPT ![ni].faces = Append(@, face)] ELSE cs1
        cluster_empty == cs1[ci].faces = <<>>
    IN  [clusters |-> IF cluster_empty THEN DropCluster(cs2, cluster_id) ELSE cs2,
         custom_names |-> IF cluster_empty THEN DictDel(names, cluster_id) ELSE names,
         negative_constraints |-> nc,
         orphaned_faces |-> IF found THEN orphans ELSE Append(orphans, face),
         verified |-> IF found /\ ni # 0 THEN ver \ {face} ELSE ver,
         new_cluster_id |-> new_cluster_id]

\* verify_face with is_correct = True, line 344: face.verified = True
MarkVerified(cs, ci, fi, ver) == ver \cup {cs[ci].faces[fi]}

VerifyFace(face_id, cluster_id, is_correct) ==
    LET cs == EnsureClusters(clusters, faces, custom_names)
        ci == ClusterIndex(cs, cluster_id)
        fi == IF ci = 0 THEN 0
              ELSE FaceIndex(cs[ci].faces, face_id)
    IN  /\ UNCHANGED <<embedding, faces, scanned_paths>>
        /\ IF ci = 0 \/ fi = 0
           THEN /\ clusters' = cs
                /\ last' = Returned("verify_face", "error", face_id, cluster_id, NoCluster)
                /\ UNCHANGED <<custom_names, negative_constraints, orphaned_faces, verified,
                               disk>>
           ELSE IF is_correct
           THEN /\ clusters' = cs
                /\ verified' = MarkVerified(cs, ci, fi, verified)
                /\ disk' = SaveFaces(disk, faces, verified')
                /\ last' = Returned("verify_face", "verified", face_id, cluster_id, NoCluster)
                /\ UNCHANGED <<custom_names, negative_constraints, orphaned_faces>>
           ELSE LET r == RejectFace(cs, ci, cs[ci].faces[fi], custom_names,
                                    negative_constraints, orphaned_faces, verified)
                IN  /\ clusters' = r.clusters
                    /\ custom_names' = r.custom_names
                    /\ negative_constraints' = r.negative_constraints
                    /\ orphaned_faces' = r.orphaned_faces
                    /\ verified' = r.verified \cap Live(faces, r.clusters, r.orphaned_faces)
                    /\ disk' = SaveRejection(disk, r, faces, custom_names, verified')
                    /\ last' = Returned("verify_face", "rejected", face_id, cluster_id,
                                        r.new_cluster_id)

\* (variant: the source cluster is left in the list)
MergeIntoKeepSource(cs, si, ti) == [cs EXCEPT ![ti].faces = @ \o cs[si].faces]

\* merge_clusters, lines 303-307: the cluster list after the merge
MergeInto(cs, si, ti) ==
    DropCluster([cs EXCEPT ![ti].faces = @ \o cs[si].faces], cs[si].cluster_id)

MergeClusters(source_cluster_id, target_cluster_id) ==
    LET cs == EnsureClusters(clusters, faces, custom_names)
        si == ClusterIndex(cs, source_cluster_id)
        ti == ClusterIndex(cs, target_cluster_id)
    IN  /\ UNCHANGED <<embedding, faces, scanned_paths, negative_constraints,
                       orphaned_faces, verified>>
        /\ IF si = 0 \/ ti = 0 \/ source_cluster_id = target_cluster_id
           THEN /\ clusters' = cs
                /\ last' = Returned("merge_clusters", "error", 0, source_cluster_id,
                                    target_cluster_id)
                /\ UNCHANGED <<custom_names, disk>>
           ELSE /\ clusters' = MergeInto(cs, si, ti)
                /\ custom_names' = DictDel(custom_names, source_cluster_id)
                /\ disk' = SaveFaces(SaveCustomNames(disk, custom_names'), faces, verified)
                /\ last' = Returned("merge_clusters", "success", 0, source_cluster_id,
                                    target_cluster_id)

\* the source of the successful merge that the call being made follows, if any
MergedJustBefore ==
    IF last.op = "merge_clusters" /\ last.status = "success" THEN last.cluster_id ELSE NoCluster

RenameCluster(cluster_id, new_name) ==
    LET cs == EnsureClusters(clusters, faces, custom_names)
        ci == ClusterIndex(cs, cluster_id)
    IN  /\ UNCHANGED <<embedding, faces, scanned_paths, negative_constraints,
                       orphaned_faces, verified>>
        /\ IF ci = 0
           THEN /\ clusters' = cs
                /\ last' = Returned("rename_cluster", "error", 0, cluster_id,
                                    MergedJustBefore)
                /\ UNCHANGED <<custom_names, disk>>
           ELSE /\ clusters' = [cs EXCEPT ![ci].name = new_name]
                /\ custom_names' = DictSet(custom_names, cluster_id, new_name)
                /\ disk' = SaveCustomNames(disk, custom_names')
                /\ last' = Returned("rename_cluster", "success", 0, cluster_id,
                                    MergedJustBefore)

\* get_clusters
GetClusters ==
    /\ clusters' = EnsureClusters(clusters, faces, custom_names)
    /\ last' = Returned("get_clusters", "success", 0, NoCluster, NoCluster)
    /\ UNCHANGED <<embedding, faces, scanned_paths, custom_names, negative_constraints,
                   orphaned_faces, verified, disk>>

\* the "threshold" entry of the /face-recluster response
ThresholdUsed(threshold) == <<"threshold", threshold>>

\* the threshold of the cluster_faces pass that the call being made follows, if any
ThresholdJustBefore == IF last.op = "cluster_faces" THEN last.other ELSE NoCluster

\* POST /face-recluster: cluster_faces(similarity_threshold=threshold)
ReclusterFaces(threshold) ==
    /\ clusters' = ClusterFaces(faces, threshold, custom_names)
    /\ verified' = verified \cap Live(faces, clusters', orphaned_faces)
    /\ last' = Returned("cluster_faces", "success", 0, ThresholdJustBefore,
                        ThresholdUsed(threshold))
    /\ UNCHANGED <<embedding, faces, scanned_paths, custom_names, negative_constraints,
                   orphaned_faces, disk>>

\* clear_all
ClearAll ==
    /\ faces' = <<>>
    /\ scanned_paths' = {}
    /\ clusters' = <<>>
    /\ verified' = verified \cap Range(orphaned_faces)
    /\ disk' = [disk EXCEPT !.faces = <<>>, !.scanned_paths = {}]
    /\ last' = Returned("clear_all", "cleared", 0, NoCluster, NoCluster)
    /\ UNCHANGED <<embedding, custom_names, negative_constraints, orphaned_faces>>

\* --------------------------------------------------- constrained re-clustering
\* Step 1: the (face, original_cluster_id) pairs of the unverified members
RECURSIVE UnverifiedFaces(_, _)
UnverifiedFaces(cs, ver) ==
    IF cs = <<>> THEN <<>>
    ELSE LET c == Head(cs)
             unv == SelectSeq(c.faces, LAMBDA f : f \notin ver)
         IN  [k \in 1..Len(unv) |-> <<unv[k], c.cluster_id>>] \o UnverifiedFaces(Tail(cs), ver)

\* (variant: a new cluster is seeded with the first verified face only)
RECURSIVE SeedClustersFirstOnly(_, _)
SeedClustersFirstOnly(cs, ver) ==
    IF cs = <<>> THEN <<>>
    ELSE LET c == Head(cs)
             verified_faces == SelectSeq(c.faces, LAMBDA f : f \in ver)
         IN  (IF verified_faces # <<>>
              THEN <<FaceCluster(c.cluster_id, c.name, <<verified_faces[1]>>)>> ELSE <<>>)
             \o SeedClustersFirstOnly(Tail(cs), ver)

\* (variant: a cluster without a verified face is kept, with all its members)
RECURSIVE SeedClustersKeepAll(_, _)
SeedClustersKeepAll(cs, ver) ==
    IF cs = <<>> THEN <<>>
    ELSE LET c == Head(cs)
             verified_faces == SelectSeq(c.faces, LAMBDA f : f \in ver)
         IN  <<FaceCluster(c.cluster_id, c.name,
                           IF verified_faces # <<>> THEN verified_faces ELSE c.faces)>>
             \o SeedClustersKeepAll(Tail(cs), ver)

\* Steps 1-3: new_clusters, the clusters with a verified face holding those faces only
\* (their order is the order of verified_centroids, and of self.clusters)
RECURSIVE SeedClusters(_, _)
SeedClusters(cs, ver) ==
    IF cs = <<>> THEN <<>>
    ELSE LET c == Head(cs)
             verified_faces == SelectSeq(c.faces, LAMBDA f : f \in ver)
         IN  (IF verified_faces # <<>>
              THEN <<FaceCluster(c.cluster_id, c.name, verified_faces)>> ELSE <<>>)
             \o SeedClusters(Tail(cs), ver)

\* the loop over verified_centroids (lines 968-976 and 998-1005) from anchor k on
RECURSIVE BestAnchorFrom(_, _, _, _, _, _)
BestAnchorFrom(face, seeds, constrained_clusters, k, best_cluster_id, best_similarity) ==
    IF k > Len(seeds) THEN best_cluster_id
    ELSE LET similarity == CentroidSim(EmbeddingOf(face), EmbeddingsOf(seeds[k].faces))
         IN  IF ~InSeq(seeds[k].cluster_id, constrained_clusters)
                /\ SimGT(similarity, best_similarity)
             THEN BestAnchorFrom(face, seeds, constrained_clusters, k + 1,
                                 seeds[k].cluster_id, similarity)
             ELSE BestAnchorFrom(face, seeds, constrained_clusters, k + 1,
                                 best_cluster_id, best_similarity)

BestAnchor(face, seeds, constraints, similarity_threshold) ==
    BestAnchorFrom(face, seeds, ConstraintsOf(constraints, FaceIdOf(face)), 1,
                   NoCluster, ThresholdSim(similarity_threshold))

\* new_clusters[best_cluster_id].faces.append(face)
AppendTo(cs, cluster_id, face) ==
    [cs EXCEPT ![ClusterIndex(cs, cluster_id)].faces = Append(@, face)]

\* Step 4 from the k-th unverified face on; acc is
\* [new_clusters, orphaned_faces, faces_moved]
RECURSIVE ReassignUnverified(_, _, _, _, _, _)
ReassignUnverified(unverified_faces, k, seeds, constraints, threshold, acc) ==
    IF k > Len(unverified_faces) THEN acc
    ELSE LET face == unverified_faces[k][1]
             original_cluster_id == unverified_faces[k][2]
             best == BestAnchor(face, seeds, constraints, threshold)
             next == IF best # NoCluster
                     THEN [acc EXCEPT !.new_clusters = AppendTo(@, best, face),
                                      !.faces_moved = IF best # original_cluster_id
                                                      THEN @ + 1 ELSE @]
                     ELSE IF ~InSeq(face, acc.orphaned_faces)
                     THEN [acc EXCEPT !.orphaned_faces = Append(@, face)]
                     ELSE acc
         IN  ReassignUnverified(unverified_faces, k + 1, seeds, constraints, threshold, next)

\* Step 5 from the k-th orphan on; acc is [new_clusters, placed_orphans]
RECURSIVE PlaceOrphans(_, _, _, _, _, _)
PlaceOrphans(orphans, k, seeds, constraints, threshold, acc) ==
    IF k > Len(orphans) THEN acc
    ELSE LET face == orphans[k]
             best == BestAnchor(face, seeds, constraints, threshold)
             next == IF best # NoCluster
                     THEN [acc EXCEPT !.new_clusters = AppendTo(@, best, face),
                                      !.placed_orphans = Append(@, face)]
                     ELSE acc
         IN  PlaceOrphans(orphans, k + 1, seeds, constraints, threshold, next)

\* recluster_with_constraints from line 946 on (some cluster has a verified face)
Recluster(cs, constraints, orphans, ver, threshold) ==
    LET seeds == SeedClusters(cs, ver)
        step4 == ReassignUnverified(UnverifiedFaces(cs, ver), 1, seeds, constraints, threshold,
                                    [new_clusters |-> seeds, orphaned_faces |-> orphans,
                                     faces_moved |-> 0])
        step5 == PlaceOrphans(step4.orphaned_faces, 1, seeds, constraints, threshold,
                              [new_clusters |-> step4.new_clusters, placed_orphans |-> <<>>])
    IN  [clusters |-> SortByFaceCount(SelectSeq(step5.new_clusters,
                                                LAMBDA c : c.faces # <<>>)),
         orphaned_faces |-> SelectSeq(step4.orphaned_faces,
                                      LAMBDA f : ~InSeq(f, step5.placed_orphans)),
         faces_moved |-> step4.faces_moved,
         orphans_placed |-> Len(step5.placed_orphans)]

ReclusterWithConstraints(similarity_threshold) ==
    /\ UNCHANGED <<embedding, faces, scanned_paths, custom_names, negative_constraints>>
    /\ IF clusters = <<>>
       THEN /\ clusters' = IF faces # <<>>
                           THEN ClusterFaces(faces, DefaultClusterThreshold, custom_names)
                           ELSE clusters
            /\ last' = Returned("recluster_with_constraints", "error", 0, NoCluster, NoCluster)
            /\ UNCHANGED <<orphaned_faces, verified, disk>>
       ELSE IF SeedClusters(clusters, verified) = <<>>
       THEN /\ last' = Returned("recluster_with_constraints", "error", 0, NoCluster, NoCluster)
            /\ UNCHANGED <<clusters, orphaned_faces, verified, disk>>
       ELSE LET r == Recluster(clusters, negative_constraints, orphaned_faces, verified,
                               similarity_threshold)
            IN  /\ clusters' = r.clusters
                /\ orphaned_faces' = r.orphaned_faces
                /\ verified' = verified \cap Live(faces, r.clusters, r.orphaned_faces)
                /\ disk' = SaveOrphanedFaces(SaveFaces(disk, faces, verified'),
                                             orphaned_faces', verified')
                /\ last' = Returned("recluster_with_constraints", "success", 0,
                                    NoCluster, NoCluster)

\* -------------------------------------------------------------------- scan
\* image_paths as start_face_scan reads them from the index, which holds the
\* first n images of the collection, in order, and is never empty (line 893)
PathList(n) == [k \in 1..n |-> k]

Prefix(s, n) == SubSeq(s, 1, IF n < Len(s) THEN n ELSE Len(s))

\* FaceData(...): an object that no list refers to (the lowest free copy)
NewFaceData(face_id, used) ==
    <<face_id, CHOOSE c \in Copies :
                  /\ <<face_id, c>> \notin used
                  /\ \A d \in 1..(c - 1) : <<face_id, d>> \in used>>

\* _detect_faces_in_image over the scanned paths: the face of each image, unless
\* "any(f.face_id == face_id for f in self.faces)"
Detections(paths, fs) == SelectSeq(paths, LAMBDA p : ~HasFaceId(fs, p))

\* scan_images.  "stop" is where the scan sees self.stop_scan set: 0 never; k in
\* 1..total at the check before image k; total + 1 at line 767, after the last
\* image; total + 2 at the batch check of _generate_embeddings_batch
ScanImages(image_paths, incremental, limit, stop) ==
    LET fs0 == IF incremental THEN faces ELSE <<>>
        scanned0 == IF incremental THEN scanned_paths ELSE {}
        unscanned == IF incremental
                     THEN SelectSeq(image_paths, LAMBDA p : p \notin scanned_paths)
                     ELSE image_paths
        paths_to_scan == IF limit > 0 THEN Prefix(unscanned, limit) ELSE unscanned
        total_to_scan == Len(paths_to_scan)
        processed == IF stop \in 1..total_to_scan
                     THEN Prefix(paths_to_scan, stop - 1) ELSE paths_to_scan
        all_detections == Detections(processed, fs0)
        used == Range(fs0) \cup Range(orphaned_faces)
        new_faces == IF stop = total_to_scan + 2 THEN <<>>
                     ELSE [k \in 1..Len(all_detections) |->
                              NewFaceData(all_detections[k], used)]
    IN  /\ stop \in 0..(total_to_scan + 2)
        /\ UNCHANGED <<embedding, custom_names, negative_constraints, orphaned_faces>>
        /\ IF total_to_scan = 0
           THEN /\ stop = 0
                /\ faces' = fs0
                /\ scanned_paths' = scanned0
                /\ verified' = verified \cap Live(fs0, clusters, orphaned_faces)
                /\ last' = Returned("scan_images", "complete", 0, NoCluster, NoCluster)
                /\ UNCHANGED <<clusters, disk>>
           ELSE IF stop \in 1..(total_to_scan + 1)
           THEN /\ faces' = fs0
                /\ scanned_paths' = scanned0 \cup Range(processed)
                /\ verified' = verified \cap Live(fs0, clusters, orphaned_faces)
                /\ last' = Returned("scan_images", "stopped", 0, NoCluster, NoCluster)
                /\ UNCHANGED <<clusters, disk>>
           ELSE /\ faces' = fs0 \o new_faces
                /\ scanned_paths' = scanned0 \cup Range(processed)
                /\ clusters' = ClusterFaces(faces', DefaultClusterThreshold, custom_names)
                /\ verified' = (verified \ Range(new_faces))
                                  \cap Live(faces', clusters', orphaned_faces)
                /\ disk' = SaveScannedPaths(SaveFaces(disk, faces', verified'),
                                            scanned_paths')
                /\ last' = Returned("scan_images", "complete", 0, NoCluster, NoCluster)

\* the threads that start requests arriving close together can create
NumThreads == 2
ThreadIds == 1..NumThreads

\* no scan thread: the fields of the thread record at rest
IdleThread ==
    [pc |-> "idle", image_paths |-> <<>>, incremental |-> FALSE, limit |-> 0,
     paths_to_scan |-> <<>>, idx |-> 0, all_detections |-> <<>>, new_faces |-> <<>>,
     stop_requested |-> FALSE]

\* no verify_face request in flight
NoRequest ==
    [op |-> "none", face_id |-> 0, cluster_id |-> NoCluster, is_correct |-> FALSE,
     cluster_faces |-> <<>>, face |-> <<0, 0>>, replaced |-> FALSE]

\* ------------------------------------------------------------ specification
Init ==
    /\ embedding \in Worlds
    /\ faces = <<>>
    /\ scanned_paths = {}
    /\ clusters = <<>>
    /\ custom_names = EmptyDict
    /\ negative_constraints = EmptyDict
    /\ orphaned_faces = <<>>
    /\ verified = {}
    /\ last = Returned("init", "none", 0, NoCluster, NoCluster)
    /\ calls = 0
    /\ renamed = EmptyDict
    /\ is_scanning = FALSE
    /\ stop_scan = FALSE
    /\ scan_thread = [t \in ThreadIds |-> IdleThread]
    /\ request = NoRequest
    /\ disk = NoFiles

ScanLimits == {0, 1}
IndexSizes == 1..NumFaces

\* the calls a client can make, with every value of their arguments
ScanCall ==
    \E n \in IndexSizes, incremental \in BOOLEAN, limit \in ScanLimits,
       stop \in 0..(NumFaces + 2) :
        ScanImages(PathList(n), incremental, limit, stop)

VerifyCall ==
    \E face_id \in FaceIds, cluster_id \in ClusterIds, is_correct \in BOOLEAN :
        VerifyFace(face_id, cluster_id, is_correct)

MergeCall == \E source \in ClusterIds, target \in ClusterIds : MergeClusters(source, target)

RenameCall ==
    \E cluster_id \in ClusterIds, new_name \in CustomNames : RenameCluster(cluster_id, new_name)

ClusterFacesCall == \E threshold \in ClusterThresholds : ReclusterFaces(threshold)

ReclusterCall == \E threshold \in ReclusterThresholds : ReclusterWithConstraints(threshold)

\* the names given by rename_cluster that are in force after the call just made:
\* a rename of C binds C to the new name, a merge with source C ends C's binding
RenamedAfter ==
    IF last'.op = "rename_cluster" /\ last'.status = "success"
    THEN DictSet(renamed, last'.cluster_id, custom_names'[last'.cluster_id])
    ELSE IF last'.op = "merge_clusters" /\ last'.status = "success"
    THEN DictDel(renamed, last'.cluster_id)
    ELSE renamed

\* one more call, of a run of at most MaxCalls calls.  The call runs from entry
\* to return with no other thread at work: is_scanning is False again when a
\* scan returns, and stop_scan, which scan_images clears on entry (line 718)
\* and nothing else reads, is not tracked (the point at which a scan sees it
\* set is the input "stop" of ScanImages)
Step(call) ==
    /\ calls < MaxCalls
    /\ calls' = calls + 1
    /\ call
    /\ renamed' = RenamedAfter
    /\ UNCHANGED <<is_scanning, stop_scan, scan_thread, request>>

Next ==
    \/ Step(ScanCall)
    \/ Step(VerifyCall)
    \/ Step(MergeCall)
    \/ Step(RenameCall)
    \/ Step(GetClusters)
    \/ Step(ClusterFacesCall)
    \/ Step(ReclusterCall)
    \/ Step(ClearAll)

Spec == Init /\ [][Next]_vars

\* ------------------------------------------------------- state functions
\* how many times a face id stands in the member lists of the clusters
RECURSIVE MemberCount(_, _)
MemberCount(cs, face_id) ==
    IF cs = <<>> THEN 0
    ELSE Len(SelectSeq(Head(cs).faces, LAMBDA f : FaceIdOf(f) = face_id))
         + MemberCount(Tail(cs), face_id)

RECURSIVE TotalMembers(_)
TotalMembers(cs) == IF cs = <<>> THEN 0 ELSE Len(Head(cs).faces) + TotalMembers(Tail(cs))

\* the member list of a cluster id, empty when the list has no such cluster
FacesOfCluster(cs, cluster_id) ==
    IF ClusterIndex(cs, cluster_id) = 0 THEN <<>> ELSE cs[ClusterIndex(cs, cluster_id)].faces

\* restricted runs: only the calls a claim names
NextC1 ==
    \/ Step(ScanCall)
    \/ Step(VerifyCall)
    \/ Step(MergeCall)
    \/ Step(GetClusters)
    \/ Step(ClusterFacesCall)
    \/ Step(ReclusterCall)

SpecC1 == Init /\ [][NextC1]_vars

NextC2 ==
    \/ Step(ScanCall)
    \/ Step(VerifyCall)
    \/ Step(MergeCall)
    \/ Step(ClusterFacesCall)
    \/ Step(ReclusterCall)
    \/ Step(ClearAll)

SpecC2 == Init /\ [][NextC2]_vars

\* ---------------------------------------------- clustering as a function
\* Photo collections for the clustering pass alone: chains whose linking face
\* comes first, in the middle or last, similarities of exactly 0.60 and 0.80
ClusterPools ==
    { << <<1, 0>>, <<3, 4>>, <<0, 1>>, <<-1, 0>> >>,
      << <<1, 0>>, <<0, 1>>, <<3, 4>>, <<4, 3>> >>,
      << <<3, 4>>, <<1, 0>>, <<0, 1>>, <<4, 3>> >> }
ClusterWorlds ==
    {[i \in FaceIds |-> pool[((i - 1) % Len(pool)) + 1]] : pool \in ClusterPools}

\* the thresholds the passes are run at
PartitionThresholds == {ServerReclusterThreshold, DefaultReclusterThreshold, 80, 90}

\* a face list as _load_faces leaves it: stored faces in any order, one object
\* per face id, and no clusters yet
FaceLists ==
    {fs \in UNION {[1..n -> {<<i, 1>> : i \in FaceIds}] : n \in 1..NumFaces} :
        \A a, b \in DOMAIN fs : a # b => fs[a] # fs[b]}

InitCluster ==
    /\ embedding \in ClusterWorlds
    /\ faces \in FaceLists
    /\ scanned_paths = {FaceIdOf(faces[k]) : k \in DOMAIN faces}
    /\ clusters = <<>>
    /\ custom_names = EmptyDict
    /\ negative_constraints = EmptyDict
    /\ orphaned_faces = <<>>
    /\ verified = {}
    /\ last = Returned("init", "none", 0, NoCluster, NoCluster)
    /\ calls = 0
    /\ renamed = EmptyDict
    /\ is_scanning = FALSE
    /\ stop_scan = FALSE
    /\ scan_thread = [t \in ThreadIds |-> IdleThread]
    /\ request = NoRequest
    /\ disk = SaveScannedPaths(SaveFaces(NoFiles, faces, {}), scanned_paths)

PartitionCall == \E threshold \in PartitionThresholds : ReclusterFaces(threshold)

NextCluster == Step(PartitionCall)

SpecCluster == InitCluster /\ [][NextCluster]_vars

\* the classes of a cluster list: each cluster id with the face ids of its members
ClassesOf(cs) ==
    {<<cs[i].cluster_id, {FaceIdOf(f) : f \in Range(cs[i].faces)}>> : i \in DOMAIN cs}

\* the partition of a cluster list: the member id sets alone
PartitionOf(cs) == {{FaceIdOf(f) : f \in Range(cs[i].faces)} : i \in DOMAIN cs}

\* the block sizes the pair loop is run with: one row per block up to one
\* block for all rows, and the size the code uses
BlockSizes == (1..NumFaces) \cup {ClusterBatchSize}

\* the groups of a parent array: the face ids of the rows that share a root
PartitionByParents(fs, parent) ==
    {{FaceIdOf(fs[j]) : j \in {j \in DOMAIN fs : Root(parent, j) = Root(parent, i)}} :
        i \in DOMAIN fs}

\* two distinct faces whose similarity is >= threshold
Linked(a, b, threshold) ==
    a # b /\ SimGE(PairSim(EmbeddingOf(a), EmbeddingOf(b)), ThresholdSim(threshold))

\* the faces a set of faces reaches through links
RECURSIVE Reach(_, _, _)
Reach(fs, threshold, set) ==
    LET more == set \cup {b \in Range(fs) : \E a \in set : Linked(a, b, threshold)}
    IN  IF more = set THEN set ELSE Reach(fs, threshold, more)

\* the connected components of the link graph, as sets of face ids
Components(fs, threshold) ==
    {{FaceIdOf(b) : b \in Reach(fs, threshold, {a})} : a \in Range(fs)}

\* every class of "fine" lies inside a class of "coarse"
Refines(fine, coarse) == \A a \in fine : \E b \in coarse : a \subseteq b

\* the member of a cluster that comes first in the face list
FirstInFaceList(fs, members) ==
    fs[CHOOSE k \in DOMAIN fs :
          /\ InSeq(fs[k], members)
          /\ \A j \in 1..(k - 1) : ~InSeq(fs[j], members)]

\* the calls C12 names, after the scans that build the face list
NextC12 ==
    \/ Step(ScanCall)
    \/ Step(RenameCall)
    \/ Step(VerifyCall)
    \/ Step(MergeCall)
    \/ Step(ClusterFacesCall)
    \/ Step(ReclusterCall)

SpecC12 == Init /\ [][NextC12]_vars

\* ------------------------------------------------- the scan as a thread
\* POST /face-scan runs scan_images in a background thread and returns at
\* once; no lock guards the service.  A thread takes one step per line group
\* below, and requests run between the steps.  Other requests wait while a
\* verify_face is in flight.

\* every object a list or the request in flight refers to
LiveNow(fs, cs, orphans, req) ==
    Live(fs, cs, orphans) \cup (IF req.op = "none" THEN {} ELSE {req.face})

\* the FaceData objects the scan threads hold in their local new_faces
HeldByThreads == UNION {Range(scan_thread[t].new_faces) : t \in ThreadIds}

\* start_face_scan, server.py lines 871-914; t is the thread it creates when
\* it does not answer "already_scanning"
StartFaceScan(t, image_paths, incremental, limit) ==
    /\ calls < MaxCalls
    /\ calls' = calls + 1
    /\ request.op = "none"
    /\ is_scanning \/ scan_thread[t].pc = "idle"
    /\ IF is_scanning
       THEN /\ last' = Returned("start_face_scan", "already_scanning", 0, NoCluster,
                                NoCluster)
            /\ UNCHANGED scan_thread
       ELSE /\ scan_thread' =
                  [scan_thread EXCEPT
                      ![t] = [IdleThread EXCEPT !.pc = "enter", !.image_paths = image_paths,
                                                !.incremental = incremental,
                                                !.limit = limit]]
            /\ last' = Returned("start_face_scan", "started", 0, NoCluster, NoCluster)
    /\ UNCHANGED <<embedding, faces, scanned_paths, clusters, custom_names,
                   negative_constraints, orphaned_faces, verified, renamed,
                   is_scanning, stop_scan, request, disk>>

\* stop_face_scan, server.py lines 997-1006; a thread record notes a stop
\* asked for while the thread exists, that is after its start was acknowledged
StopFaceScan ==
    /\ stop_scan' = TRUE
    /\ scan_thread' = [t \in ThreadIds |->
                          [scan_thread[t] EXCEPT
                              !.stop_requested = (scan_thread[t].pc # "idle")]]
    /\ UNCHANGED <<embedding, faces, scanned_paths, clusters, custom_names,
                   negative_constraints, orphaned_faces, verified, last, calls, renamed,
                   is_scanning, request, disk>>

\* scan_images, lines 714-715: the guard
ScanEnter(t) ==
    /\ scan_thread[t].pc = "enter"
    /\ scan_thread' = [scan_thread EXCEPT ![t] = IF is_scanning THEN IdleThread
                                                 ELSE [@ EXCEPT !.pc = "set"]]
    /\ UNCHANGED <<embedding, faces, scanned_paths, clusters, custom_names,
                   negative_constraints, orphaned_faces, verified, last, calls, renamed,
                   is_scanning, stop_scan, request, disk>>

\* scan_images, lines 717-720
ScanSet(t) ==
    /\ scan_thread[t].pc = "set"
    /\ is_scanning' = TRUE
    /\ stop_scan' = FALSE
    /\ scan_thread' = [scan_thread EXCEPT ![t].pc = "filter"]
    /\ UNCHANGED <<embedding, faces, scanned_paths, clusters, custom_names,
                   negative_constraints, orphaned_faces, verified, last, calls, renamed,
                   request, disk>>

\* scan_images, lines 723-745
ScanFilter(t) ==
    LET incremental == scan_thread[t].incremental
        unscanned == IF incremental
                     THEN SelectSeq(scan_thread[t].image_paths,
                                    LAMBDA p : p \notin scanned_paths)
                     ELSE scan_thread[t].image_paths
        paths_to_scan == IF scan_thread[t].limit > 0
                         THEN Prefix(unscanned, scan_thread[t].limit) ELSE unscanned
    IN  /\ scan_thread[t].pc = "filter"
        /\ faces' = IF incremental THEN faces ELSE <<>>
        /\ scanned_paths' = IF incremental THEN scanned_paths ELSE {}
        /\ verified' = verified \cap (LiveNow(faces', clusters, orphaned_faces, request)
                                         \cup HeldByThreads)
        /\ IF Len(paths_to_scan) = 0
           THEN /\ is_scanning' = FALSE
                /\ scan_thread' = [scan_thread EXCEPT ![t] = IdleThread]
                /\ last' = Returned("scan_images", "complete", 0, NoCluster, NoCluster)
           ELSE /\ scan_thread' = [scan_thread EXCEPT ![t].pc = "detect",
                                                      ![t].paths_to_scan = paths_to_scan]
                /\ UNCHANGED <<is_scanning, last>>
        /\ UNCHANGED <<embedding, clusters, custom_names, negative_constraints,
                       orphaned_faces, calls, renamed, stop_scan, request, disk>>

\* scan_images, lines 752-765: one turn of the detection loop
ScanDetect(t) ==
    /\ scan_thread[t].pc = "detect"
    /\ IF stop_scan \/ scan_thread[t].idx = Len(scan_thread[t].paths_to_scan)
       THEN /\ scan_thread' = [scan_thread EXCEPT ![t].pc = "after_detect"]
            /\ UNCHANGED scanned_paths
       ELSE LET path == scan_thread[t].paths_to_scan[scan_thread[t].idx + 1]
            IN  /\ scan_thread' =
                      [scan_thread EXCEPT
                          ![t].idx = @ + 1,
                          ![t].all_detections = @ \o Detections(<<path>>, faces)]
                /\ scanned_paths' = scanned_paths \cup {path}
    /\ UNCHANGED <<embedding, faces, clusters, custom_names, negative_constraints,
                   orphaned_faces, verified, last, calls, renamed, is_scanning,
                   stop_scan, request, disk>>

\* scan_images, lines 767-776
ScanAfterDetect(t) ==
    /\ scan_thread[t].pc = "after_detect"
    /\ IF stop_scan
       THEN /\ is_scanning' = FALSE
            /\ scan_thread' = [scan_thread EXCEPT ![t] = IdleThread]
            /\ last' = Returned("scan_images", "stopped", 0, NoCluster, NoCluster)
       ELSE /\ scan_thread' = [scan_thread EXCEPT ![t].pc = "embed"]
            /\ UNCHANGED <<is_scanning, last>>
    /\ UNCHANGED <<embedding, faces, scanned_paths, clusters, custom_names,
                   negative_constraints, orphaned_faces, verified, calls, renamed,
                   stop_scan, request, disk>>

\* scan_images, line 778: _generate_embeddings_batch, one batch of up to 32
\* detections, with its stop check at lines 631-633
ScanEmbed(t) ==
    LET used == LiveNow(faces, clusters, orphaned_faces, request) \cup HeldByThreads
        detected == scan_thread[t].all_detections
    IN  /\ scan_thread[t].pc = "embed"
        /\ scan_thread' =
              [scan_thread EXCEPT
                  ![t].pc = "finish",
                  ![t].new_faces = IF stop_scan THEN <<>>
                                   ELSE [k \in 1..Len(detected) |->
                                            NewFaceData(detected[k], used)]]
        /\ UNCHANGED <<embedding, faces, scanned_paths, clusters, custom_names,
                       negative_constraints, orphaned_faces, verified, last, calls,
                       renamed, is_scanning, stop_scan, request, disk>>

\* scan_images, lines 783-805: the new faces are stored and cluster_faces
\* replaces every cluster object
ScanFinish(t) ==
    /\ scan_thread[t].pc = "finish"
    /\ faces' = faces \o scan_thread[t].new_faces
    /\ clusters' = ClusterFaces(faces', DefaultClusterThreshold, custom_names)
    /\ scan_thread' = [scan_thread EXCEPT ![t] = IdleThread]
    /\ verified' = (verified \ Range(scan_thread[t].new_faces))
                      \cap (LiveNow(faces', clusters', orphaned_faces, request)
                               \cup UNION {Range(scan_thread'[u].new_faces) : u \in ThreadIds})
    /\ request' = [request EXCEPT !.replaced = (request.op # "none")]
    /\ disk' = SaveScannedPaths(SaveFaces(disk, faces', verified'), scanned_paths)
    /\ is_scanning' = FALSE
    /\ last' = Returned("scan_images", "complete", 0, NoCluster, NoCluster)
    /\ UNCHANGED <<embedding, scanned_paths, custom_names, negative_constraints,
                   orphaned_faces, calls, renamed, stop_scan>>

\* verify_face, lines 328-340: the lazy clustering and the two lookups; the
\* request then holds the cluster object and the face object it found
VerifyLookup(face_id, cluster_id, is_correct) ==
    LET cs == EnsureClusters(clusters, faces, custom_names)
        ci == ClusterIndex(cs, cluster_id)
        fi == IF ci = 0 THEN 0 ELSE FaceIndex(cs[ci].faces, face_id)
    IN  /\ calls < MaxCalls
        /\ calls' = calls + 1
        /\ request.op = "none"
        /\ clusters' = cs
        /\ IF ci = 0 \/ fi = 0
           THEN /\ last' = Returned("verify_face", "error", face_id, cluster_id, NoCluster)
                /\ UNCHANGED request
           ELSE /\ request' = [op |-> "verify_face", face_id |-> face_id,
                               cluster_id |-> cluster_id, is_correct |-> is_correct,
                               cluster_faces |-> cs[ci].faces, face |-> cs[ci].faces[fi],
                               replaced |-> FALSE]
                /\ UNCHANGED last
        /\ UNCHANGED <<embedding, faces, scanned_paths, custom_names, negative_constraints,
                       orphaned_faces, verified, renamed, is_scanning, stop_scan,
                       scan_thread, disk>>

\* verify_face, lines 342-399, on the objects the request holds.  When the
\* cluster list was replaced meanwhile, "cluster" is an object that is no
\* longer in self.clusters: it is put in front of the list for RejectFace,
\* which skips it as excluded, and taken off again
VerifyApply ==
    LET stale == <<FaceCluster(request.cluster_id, DefaultName(0), request.cluster_faces)>>
        cs == IF request.replaced THEN stale \o clusters ELSE clusters
        ci == ClusterIndex(cs, request.cluster_id)
        r == RejectFace(cs, ci, request.face, custom_names, negative_constraints,
                        orphaned_faces, verified)
        kept == r.clusters # <<>> /\ RemoveFaceId(request.cluster_faces, request.face_id) # <<>>
        new_clusters == IF request.replaced /\ kept THEN Tail(r.clusters) ELSE r.clusters
    IN  /\ request.op = "verify_face"
        /\ request' = NoRequest
        /\ IF request.is_correct
           THEN /\ verified' = (verified \cup {request.face})
                                  \cap (Live(faces, clusters, orphaned_faces)
                                           \cup HeldByThreads)
                /\ disk' = SaveFaces(disk, faces, verified')
                /\ last' = Returned("verify_face", "verified", request.face_id,
                                    request.cluster_id, NoCluster)
                /\ UNCHANGED <<clusters, custom_names, negative_constraints, orphaned_faces>>
           ELSE /\ clusters' = new_clusters
                /\ custom_names' = r.custom_names
                /\ negative_constraints' = r.negative_constraints
                /\ orphaned_faces' = r.orphaned_faces
                /\ verified' = r.verified \cap (Live(faces, new_clusters, r.orphaned_faces)
                                                   \cup HeldByThreads)
                /\ disk' = SaveRejection(disk, r, faces, custom_names, verified')
                /\ last' = Returned("verify_face", "rejected", request.face_id,
                                    request.cluster_id, r.new_cluster_id)
        /\ UNCHANGED <<embedding, faces, scanned_paths, calls, renamed, is_scanning,
                       stop_scan, scan_thread>>

\* the requests a client makes while a scan may be running
StartScanCall(t) ==
    \E n \in IndexSizes, incremental \in BOOLEAN, limit \in ScanLimits :
        StartFaceScan(t, PathList(n), incremental, limit)

VerifyLookupCall ==
    \E face_id \in FaceIds, cluster_id \in ClusterIds, is_correct \in BOOLEAN :
        VerifyLookup(face_id, cluster_id, is_correct)

\* a request that runs from entry to return between two steps of the thread
Between(call) == request.op = "none" /\ Step(call)

\* one scan thread beside the correction requests
NextThreads ==
    \/ StartScanCall(1)
    \/ StopFaceScan
    \/ ScanEnter(1)
    \/ ScanSet(1)
    \/ ScanFilter(1)
    \/ ScanDetect(1)
    \/ ScanAfterDetect(1)
    \/ ScanEmbed(1)
    \/ ScanFinish(1)
    \/ VerifyLookupCall
    \/ VerifyApply
    \/ Between(MergeCall)
    \/ Between(RenameCall)
    \/ Between(ClusterFacesCall)

SpecThreads == Init /\ [][NextThreads]_vars

\* a start request with the default limit (0: no limit)
StartUnlimitedCall(t) ==
    \E n \in IndexSizes, incremental \in BOOLEAN :
        StartFaceScan(t, PathList(n), incremental, 0)

\* start requests that arrive close together: each creates its own thread
NextStarts ==
    \/ \E t \in ThreadIds : StartUnlimitedCall(t)
    \/ \E t \in ThreadIds : ScanEnter(t)
    \/ \E t \in ThreadIds : ScanSet(t)
    \/ \E t \in ThreadIds : ScanFilter(t)
    \/ \E t \in ThreadIds : ScanDetect(t)
    \/ \E t \in ThreadIds : ScanAfterDetect(t)
    \/ \E t \in ThreadIds : ScanEmbed(t)
    \/ \E t \in ThreadIds : ScanFinish(t)

SpecStarts == Init /\ [][NextStarts]_vars

\* ------------------------------------------------- a new process: loading
\* FaceData.from_dict reads data["face_id"] (and the other required keys): a
\* record that lacks the key raises KeyError
Readable(d) == "face_id" \in DOMAIN d

\* a stored record that has lost its required keys
CorruptOf(d) == [verified |-> d.verified]

\* how many of the first n records are readable records of the face id
CountFaceId(records, face_id, n) ==
    Cardinality({j \in 1..n : Readable(records[j]) /\ records[j].face_id = face_id})

\* FaceData.from_dict(d) for the k-th record of a file: a new object, numbered
\* after the "before" objects of the same face id that were already built
FromDict(records, k, before) ==
    <<records[k].face_id, before + CountFaceId(records, records[k].face_id, k)>>

\* _load_faces, lines 163-173: the list comprehension is inside one try block,
\* and the except branch sets self.faces = []
LoadFaces(records) ==
    IF \A k \in DOMAIN records : Readable(records[k])
    THEN [k \in DOMAIN records |-> FromDict(records, k, 0)]
    ELSE <<>>

\* _load_orphaned_faces, lines 241-251, after the faces were loaded
LoadOrphanedFaces(records, face_records) ==
    IF \A k \in DOMAIN records : Readable(records[k])
    THEN [k \in DOMAIN records |->
             FromDict(records, k,
                      CountFaceId(face_records, records[k].face_id, Len(face_records)))]
    ELSE <<>>

\* the loaded objects whose record says verified
LoadedVerified(fs, records) == {fs[k] : k \in {j \in DOMAIN fs : records[j].verified}}

\* FaceRecognitionService.__init__ in a new process (get_face_service, first
\* request after a restart): the in-memory state is what the files hold
Restart ==
    /\ faces' = LoadFaces(disk.faces)
    /\ scanned_paths' = disk.scanned_paths
    /\ clusters' = <<>>
    /\ custom_names' = disk.custom_names
    /\ negative_constraints' = disk.negative_constraints
    /\ orphaned_faces' = LoadOrphanedFaces(disk.orphaned_faces, disk.faces)
    /\ verified' = (IF faces' = <<>> THEN {} ELSE LoadedVerified(faces', disk.faces))
                      \cup (IF orphaned_faces' = <<>> THEN {}
                            ELSE LoadedVerified(orphaned_faces', disk.orphaned_faces))
    /\ last' = Returned("load", "loaded", 0, NoCluster, NoCluster)
    /\ UNCHANGED <<embedding, disk>>

\* a record of faces_index.bin becomes unreadable while no call runs
CorruptRecord ==
    /\ \E k \in DOMAIN disk.faces :
          /\ Readable(disk.faces[k])
          /\ disk' = [disk EXCEPT !.faces[k] = CorruptOf(@)]
    /\ UNCHANGED <<embedding, faces, scanned_paths, clusters, custom_names,
                   negative_constraints, orphaned_faces, verified, last, calls, renamed,
                   is_scanning, stop_scan, scan_thread, request>>

\* runs of the store: scans and corrections, damage to the faces file, restarts
NextStore ==
    \/ Step(ScanCall)
    \/ Step(VerifyCall)
    \/ Step(ClearAll)
    \/ Step(Restart)
    \/ CorruptRecord

SpecStore == Init /\ [][NextStore]_vars

\* ------------------------------------- a collection with equidistant faces
\* Five photos: face 5 is at the same cosine (0.707) of face 1 and of face 4;
\* faces 2 and 3 are the same picture twice, near face 4 (0.894) and far from
\* the others
NumTieFaces == 5
\* the calls made in one run on this collection
MaxTieCalls == 6
TieClusterIds == {ClusterIdOf(i) : i \in 1..NumTieFaces}
TieWorlds ==
    {[i \in 1..NumTieFaces |-> << <<1, 0>>, <<-1, 2>>, <<-1, 2>>, <<0, 1>>, <<1, 1>> >>[i]]}

InitTies ==
    /\ embedding \in TieWorlds
    /\ faces = <<>>
    /\ scanned_paths = {}
    /\ clusters = <<>>
    /\ custom_names = EmptyDict
    /\ negative_constraints = EmptyDict
    /\ orphaned_faces = <<>>
    /\ verified = {}
    /\ last = Returned("init", "none", 0, NoCluster, NoCluster)
    /\ calls = 0
    /\ renamed = EmptyDict
    /\ is_scanning = FALSE
    /\ stop_scan = FALSE
    /\ scan_thread = [t \in ThreadIds |-> IdleThread]
    /\ request = NoRequest
    /\ disk = NoFiles

\* one more call, of a run of at most MaxTieCalls calls
StepTies(call) ==
    /\ calls < MaxTieCalls
    /\ calls' = calls + 1
    /\ call
    /\ renamed' = RenamedAfter
    /\ UNCHANGED <<is_scanning, stop_scan, scan_thread, request>>

\* the whole collection is scanned, uninterrupted
ScanTiesCall == ScanImages(PathList(NumTieFaces), TRUE, 0, 0)

\* POST /face-recluster with threshold 0.90
ClusterTiesCall == ReclusterFaces(90)

MergeTiesCall ==
    \E source \in TieClusterIds, target \in TieClusterIds : MergeClusters(source, target)

\* the user confirms a face
AcceptTiesCall ==
    \E face_id \in 1..NumTieFaces, cluster_id \in TieClusterIds :
        VerifyFace(face_id, cluster_id, TRUE)

NextTies ==
    \/ StepTies(ScanTiesCall)
    \/ StepTies(ClusterTiesCall)
    \/ StepTies(MergeTiesCall)
    \/ StepTies(AcceptTiesCall)
    \/ StepTies(ReclusterCall)

SpecTies == InitTies /\ [][NextTies]_vars

\* ------------------------------------------------------------------ claims
\* C1: under any sequence of cluster_faces, verify_face, merge_clusters,
\* recluster_with_constraints, get_clusters and scan_images, a face id stands in
\* the member list of at most one cluster, at most once, and a face in the
\* orphan list is a member of no cluster.
C1_OneClusterOrOrphan ==
    \A face_id \in FaceIds :
        /\ MemberCount(clusters, face_id) <= 1
        /\ HasFaceId(orphaned_faces, face_id) => MemberCount(clusters, face_id) = 0

\* C2: after every completed call the number of stored faces is the sum of the
\* cluster member counts plus the number of orphaned faces.
C2_Conservation == Len(faces) = TotalMembers(clusters) + Len(orphaned_faces)

\* C3: no cluster c has a member face e with c listed in negative_constraints[e].
C3_ConstraintRespect ==
    \A i \in DOMAIN clusters : \A k \in DOMAIN clusters[i].faces :
        ~InSeq(clusters[i].cluster_id,
               ConstraintsOf(negative_constraints, FaceIdOf(clusters[i].faces[k])))

\* C4: after every completed call, every cluster of the cluster list has at
\* least one member.
C4_NoEmptyCluster == \A i \in DOMAIN clusters : clusters[i].faces # <<>>

\* a rejection has emptied a cluster, which is gone, and other clusters remain
C4_Witness ==
    /\ last.op = "verify_face" /\ last.status = "rejected"
    /\ ClusterIndex(clusters, last.cluster_id) = 0
    /\ clusters # <<>>

\* C5: after a successful recluster_with_constraints every face that was
\* verified and in a cluster is still verified, is in the cluster of the same
\* id, and that cluster holds every face that was verified in it before.
C5_VerifiedPinned ==
    [][last'.op = "recluster_with_constraints" /\ last'.status = "success" =>
        \A i \in DOMAIN clusters : \A k \in DOMAIN clusters[i].faces :
            LET f == clusters[i].faces[k]
                after == FacesOfCluster(clusters', clusters[i].cluster_id)
            IN  f \in verified =>
                    /\ f \in verified'
                    /\ InSeq(f, after)
                    /\ \A m \in DOMAIN clusters[i].faces :
                          clusters[i].faces[m] \in verified =>
                              InSeq(clusters[i].faces[m], after)]_vars

\* a recluster has succeeded, a cluster holds two verified faces and a face
\* that matched no anchor is an orphan
C5_Witness ==
    /\ last.op = "recluster_with_constraints" /\ last.status = "success"
    /\ \E i \in DOMAIN clusters :
          Cardinality(Range(clusters[i].faces) \cap verified) >= 2
    /\ orphaned_faces # <<>>

\* C6: recluster_with_constraints called when no face anywhere is verified
\* returns an error and leaves the faces, the cluster list, the constraints,
\* the orphan list and the name bindings as they were.
C6_NoAnchorsNoChange ==
    [][last'.op = "recluster_with_constraints" /\ verified = {} =>
        /\ last'.status = "error"
        /\ UNCHANGED <<faces, clusters, negative_constraints, orphaned_faces,
                       custom_names>>]_vars

C8_RejectSoleMember ==
    [][(/\ last'.op = "verify_face" /\ last'.status = "rejected"
        /\ last'.other = NoCluster
        /\ FacesOfCluster(clusters, last'.cluster_id) # <<>>
        /\ \A f \in Range(FacesOfCluster(clusters, last'.cluster_id)) :
              FaceIdOf(f) = last'.face_id) =>
        /\ HasFaceId(orphaned_faces', last'.face_id)
        /\ ClusterIndex(clusters', last'.cluster_id) = 0
        /\ last'.cluster_id \notin DOMAIN custom_names']_vars

\* the only member of a cluster was rejected and is now an orphan
C8_Witness ==
    /\ last.op = "verify_face" /\ last.status = "rejected"
    /\ last.other = NoCluster
    /\ ClusterIndex(clusters, last.cluster_id) = 0
    /\ HasFaceId(orphaned_faces, last.face_id)
    /\ clusters # <<>>

\* C9: verify_face(face, cluster, accept) sets the verified flag of the face
\* and changes nothing else, and a second application changes nothing.
C9_AcceptFrame ==
    [][last'.op = "verify_face" /\ last'.status = "verified" =>
        LET ci == ClusterIndex(clusters', last'.cluster_id)
            fi == FaceIndex(clusters'[ci].faces, last'.face_id)
        IN  /\ ci # 0
            /\ fi # 0
            /\ clusters'[ci].faces[fi] \in verified'
            /\ verified' = verified \cup {clusters'[ci].faces[fi]}
            /\ UNCHANGED <<faces, clusters, negative_constraints, orphaned_faces,
                           custom_names>>
            /\ MarkVerified(clusters', ci, fi, verified') = verified']_vars

\* C10: a successful merge_clusters(source, target) leaves the target with the
\* members of both clusters, removes the source and its name binding, keeps the
\* target's id and name, and changes no other cluster, constraint or orphan.
C10_MergeEffect ==
    [][last'.op = "merge_clusters" /\ last'.status = "success" =>
        LET source == last'.cluster_id
            target == last'.other
            others(cs) == SelectSeq(cs, LAMBDA c : c.cluster_id \notin {source, target})
            before == FacesOfCluster(clusters, target) \o FacesOfCluster(clusters, source)
            after == FacesOfCluster(clusters', target)
        IN  /\ ClusterIndex(clusters', target) # 0
            /\ ClusterIndex(clusters', source) = 0
            /\ Len(after) = Len(before)
            /\ Range(after) = Range(before)
            /\ source \notin DOMAIN custom_names'
            /\ ClusterIndex(clusters, target) # 0
            /\ clusters'[ClusterIndex(clusters', target)].name
                  = clusters[ClusterIndex(clusters, target)].name
            /\ DictDel(custom_names', source) = DictDel(custom_names, source)
            /\ others(clusters') = others(clusters)
            /\ UNCHANGED <<negative_constraints, orphaned_faces, faces, verified>>]_vars

\* C11: a rename_cluster(S, name) issued right after a successful
\* merge_clusters(S, T) reports that S is not found and binds no name to S.
C11_RenameMergedSource ==
    [][(/\ last.op = "merge_clusters" /\ last.status = "success"
        /\ last'.op = "rename_cluster" /\ last'.cluster_id = last.cluster_id) =>
        /\ last'.status = "error"
        /\ last'.cluster_id \notin DOMAIN custom_names'
        /\ ClusterIndex(clusters', last'.cluster_id) = 0]_vars

\* a rename of the source of the merge just made has been refused, and the
\* target of that merge holds the merged members
C11_Witness ==
    /\ last.op = "rename_cluster" /\ last.status = "error"
    /\ last.other = last.cluster_id
    /\ last.cluster_id \notin DOMAIN custom_names
    /\ \E i \in DOMAIN clusters : Len(clusters[i].faces) >= 2

\* C12: once rename_cluster(C, name) has succeeded, every cluster with id C in
\* a later state has the display name "name", until C is renamed again or is
\* the source of a merge.
C12_NamePersists ==
    \A i \in DOMAIN clusters :
        clusters[i].cluster_id \in DOMAIN renamed =>
            clusters[i].name = renamed[clusters[i].cluster_id]

\* C13: a cluster_faces pass that follows a pass at the same threshold over
\* the same face list yields the same partition of face ids under the same
\* cluster ids, and every pass gives each cluster the id derived from its
\* member that comes first in the face list.
C13_SameClassesTwice ==
    [][last'.op = "cluster_faces" =>
        /\ \A i \in DOMAIN clusters' :
              clusters'[i].cluster_id
                 = ClusterIdOf(FaceIdOf(FirstInFaceList(faces', clusters'[i].faces)))
        /\ (last'.cluster_id = last'.other /\ faces' = faces) =>
              /\ ClassesOf(clusters') = ClassesOf(clusters)
              /\ PartitionOf(clusters') = PartitionOf(clusters)]_vars

\* a pass has followed a pass at the same threshold, and left a cluster of
\* several faces beside another cluster
C13_Witness ==
    /\ last.op = "cluster_faces" /\ last.cluster_id = last.other
    /\ Len(clusters) >= 2
    /\ \E i \in DOMAIN clusters :
          /\ Len(clusters[i].faces) >= 2
          /\ clusters[i].faces[1] # faces[1]

\* C14: for two cluster_faces passes over the same face list at thresholds
\* t1 < t2, the partition at t2 refines the partition at t1: faces together at
\* t2 are together at t1.
C14_HigherThresholdRefines ==
    [][(last.op = "cluster_faces" /\ last'.op = "cluster_faces" /\ faces' = faces) =>
        /\ last.other[2] < last'.other[2] =>
              Refines(PartitionOf(clusters'), PartitionOf(clusters))
        /\ last'.other[2] < last.other[2] =>
              Refines(PartitionOf(clusters), PartitionOf(clusters'))]_vars

\* a pass at a higher threshold has followed a pass at a lower one and split
\* the faces into several clusters, one of them with several faces
C14_Witness ==
    /\ last.op = "cluster_faces" /\ last.cluster_id # NoCluster
    /\ last.cluster_id[2] < last.other[2]
    /\ Len(clusters) >= 2
    /\ \E i \in DOMAIN clusters : Len(clusters[i].faces) >= 2
    /\ PartitionOf(ClusterFaces(faces, last.cluster_id[2], custom_names))
          # PartitionOf(clusters)

\* C15: the clusters cluster_faces produces are the connected components of
\* the graph that links two distinct faces when their similarity is >= the
\* threshold, for every block size of the pair loop; faces linked only
\* through a chain are in one cluster.
C15_ConnectedComponents ==
    last.op = "cluster_faces" =>
        /\ PartitionOf(clusters) = Components(faces, last.other[2])
        /\ \A batch_size \in BlockSizes :
              PartitionByParents(faces,
                  ClusterParents(EmbeddingsOf(faces), last.other[2], batch_size))
                = Components(faces, last.other[2])

\* a pass has put three faces in one cluster, two of which are not linked
C15_Witness ==
    /\ last.op = "cluster_faces"
    /\ \E i \in DOMAIN clusters :
          \E a, b, c \in Range(clusters[i].faces) :
              /\ Linked(a, b, last.other[2])
              /\ Linked(b, c, last.other[2])
              /\ a # c
              /\ ~Linked(a, c, last.other[2])

\* the clusters the resolver may choose from, as indices of the cluster list
Candidates(cs, exclude_cluster_ids, constrained_clusters) ==
    {i \in DOMAIN cs :
        /\ ~InSeq(cs[i].cluster_id, exclude_cluster_ids)
        /\ ~InSeq(cs[i].cluster_id, constrained_clusters)
        /\ cs[i].faces # <<>>}

\* the similarity of a face to a cluster: to the centroid of the verified
\* members when there are any, of all members otherwise
SimilarityTo(face, cluster, ver) ==
    CentroidSim(EmbeddingOf(face),
                EmbeddingsOf(IF \E k \in DOMAIN cluster.faces : cluster.faces[k] \in ver
                             THEN SelectSeq(cluster.faces, LAMBDA f : f \in ver)
                             ELSE cluster.faces))

\* the first candidate that attains the maximum similarity, when that maximum
\* is >= the threshold, and none otherwise
FirstMaximum(face, cs, exclude_cluster_ids, constrained_clusters, ver, threshold) ==
    LET cand == Candidates(cs, exclude_cluster_ids, constrained_clusters)
        sim(i) == SimilarityTo(face, cs[i], ver)
        best == CHOOSE i \in cand :
                    /\ \A j \in cand : SimGE(sim(i), sim(j))
                    /\ \A j \in cand : j < i => SimGT(sim(i), sim(j))
    IN  IF cand # {} /\ SimGE(sim(best), ThresholdSim(threshold))
        THEN cs[best].cluster_id ELSE NoCluster

\* C16: the resolver that re-homes a rejected face looks only at clusters that
\* are neither excluded nor in the face's negative constraints, measures each
\* by the centroid of its verified members when it has any, and returns the
\* first cluster that attains the maximum similarity when that maximum is >=
\* the threshold (equality qualifies), and none otherwise.
C16_FirstMaximumAtLeastThreshold ==
    [][(/\ last'.op = "verify_face" /\ last'.status = "rejected"
        /\ clusters # <<>>) =>
        LET cluster_id == last'.cluster_id
            ci == ClusterIndex(clusters, cluster_id)
            face == clusters[ci].faces[FaceIndex(clusters[ci].faces, last'.face_id)]
            cs1 == [clusters EXCEPT ![ci].faces = RemoveFaceId(@, last'.face_id)]
        IN  last'.other = FirstMaximum(face, cs1, <<cluster_id>>,
                                       ConstraintsOf(negative_constraints', last'.face_id),
                                       verified, DefaultFindThreshold)]_vars

\* C17: no call removes a recorded (face, cluster) negative constraint, and a
\* pair is recorded once however often the face is rejected from the cluster.
C17_ConstraintsOnlyGrow ==
    [][/\ \A face_id \in DOMAIN negative_constraints :
             /\ face_id \in DOMAIN negative_constraints'
             /\ \A k \in DOMAIN negative_constraints[face_id] :
                   InSeq(negative_constraints[face_id][k], negative_constraints'[face_id])
       /\ \A face_id \in DOMAIN negative_constraints' :
             \A a, b \in DOMAIN negative_constraints'[face_id] :
                 a # b => negative_constraints'[face_id][a] # negative_constraints'[face_id][b]
      ]_vars

\* a face has been rejected a second time from the one cluster it was ever
\* rejected from (each rejection that found no new home added it to the
\* orphan list)
C17_Witness ==
    /\ last.op = "verify_face" /\ last.status = "rejected"
    /\ Len(SelectSeq(orphaned_faces, LAMBDA f : FaceIdOf(f) = last.face_id)) >= 2
    /\ ConstraintsOf(negative_constraints, last.face_id) = <<last.cluster_id>>

\* the call just made named a cluster or a face that the state before the call
\* does not have, or was a merge of a cluster into itself
NamedMissing ==
    \/ /\ last'.op = "verify_face"
       /\ ~HasFaceId(FacesOfCluster(clusters, last'.cluster_id), last'.face_id)
    \/ /\ last'.op = "rename_cluster"
       /\ ClusterIndex(clusters, last'.cluster_id) = 0
    \/ /\ last'.op = "merge_clusters"
       /\ \/ ClusterIndex(clusters, last'.cluster_id) = 0
          \/ ClusterIndex(clusters, last'.other) = 0
          \/ last'.cluster_id = last'.other

\* C18: verify_face, rename_cluster and merge_clusters called with a cluster id
\* or face id that does not exist, or a merge with equal ids, return an error
\* and leave the cluster list, the memberships, the verified flags, the
\* constraints, the orphan list and the name bindings unchanged.
C18_MissingIdsRefused ==
    [][NamedMissing =>
        /\ last'.status = "error"
        /\ UNCHANGED <<clusters, verified, negative_constraints, orphaned_faces,
                       custom_names>>]_vars

\* no scan thread and no request is at work
Quiet == scan_thread[1].pc = "idle" /\ request.op = "none"

\* what every state of every serial order of calls (every state of Spec)
\* satisfies: no face id is a member twice, and when clusters exist every
\* stored face is a member of a cluster or an orphan
SerialState ==
    /\ \A face_id \in FaceIds : MemberCount(clusters, face_id) <= 1
    /\ clusters # <<>> =>
          \A k \in DOMAIN faces :
              \/ MemberCount(clusters, FaceIdOf(faces[k])) >= 1
              \/ HasFaceId(orphaned_faces, FaceIdOf(faces[k]))

\* C19: with a scan thread running beside verify_face, merge_clusters,
\* rename_cluster and cluster_faces requests, no correction is applied to a
\* cluster object that has been replaced, and every state the threads leave
\* behind is a state that a serial order of the calls can leave.
C19_Serialized ==
    [][/\ (request.op = "verify_face" /\ request'.op = "none") => ~request.replaced
       /\ Quiet' => SerialState']_vars

\* C20: a stop request made after the start of a scan was acknowledged is not
\* lost: from then on the running scan processes no further image, and when it
\* ends is_scanning is False.
C20_StopNotLost ==
    [][(scan_thread[1].stop_requested /\ scan_thread[1].pc # "idle") =>
        /\ scan_thread'[1].pc # "idle" => scan_thread'[1].idx = scan_thread[1].idx
        /\ scan_thread'[1].pc = "idle" => ~is_scanning']_vars

\* C21: when a scan is cancelled, the faces stored before the scan are still
\* stored, and every image the scan has marked as scanned has its detected face
\* in the store (image p shows face p), so that no later incremental scan skips
\* an image whose faces were dropped.
C21_CancelKeepsWork ==
    [][last'.op = "scan_images" /\ last'.status = "stopped" =>
        /\ \A k \in DOMAIN faces : InSeq(faces[k], faces')
        /\ \A p \in scanned_paths' : HasFaceId(faces', p)]_vars

\* the persisted sections are what a save now would write
StoredIsMemory ==
    /\ disk.faces = ToDicts(faces, verified)
    /\ disk.custom_names = custom_names
    /\ disk.negative_constraints = negative_constraints
    /\ disk.orphaned_faces = ToDicts(orphaned_faces, verified)

\* C22: after every completed verify_face, merge_clusters, rename_cluster,
\* recluster_with_constraints, scan_images (on every exit path) and clear_all,
\* each persisted section (faces with their verified flags, name bindings,
\* constraints, orphans) equals its in-memory counterpart.
C22_StoredEqualsMemory ==
    [][last'.op \in {"verify_face", "merge_clusters", "rename_cluster",
                     "recluster_with_constraints", "scan_images", "clear_all"}
        => StoredIsMemory']_vars

\* the face ids of the records of a file that from_dict can read, in file order
ReadableIds(records) ==
    LET ok == SelectSeq(records, Readable) IN [k \in DOMAIN ok |-> ok[k].face_id]

\* C23: a new process that loads a faces file holding readable and unreadable
\* records ends with exactly the readable records in self.faces: an
\* unreadable record is skipped and the others are loaded.
C23_LoadSkipsCorrupt ==
    [][last'.op = "load" /\ calls' # calls =>
        [k \in DOMAIN faces' |-> FaceIdOf(faces'[k])] = ReadableIds(disk.faces)]_vars

\* the similarity of a face to the centroid of an anchor (its verified faces)
AnchorSim(face, seed) == CentroidSim(EmbeddingOf(face), EmbeddingsOf(seed.faces))

\* the anchors a face may join: not in its negative constraints
AllowedAnchors(face, seeds, constraints) ==
    {k \in DOMAIN seeds :
        ~InSeq(seeds[k].cluster_id, ConstraintsOf(constraints, FaceIdOf(face)))}

\* the ids of the allowed anchors of highest similarity to the face, when that
\* similarity is at least the threshold; none otherwise
HighestAnchors(face, seeds, constraints, threshold) ==
    LET allowed == AllowedAnchors(face, seeds, constraints)
    IN  {seeds[k].cluster_id : k \in
            {j \in allowed :
                /\ SimGE(AnchorSim(face, seeds[j]), ThresholdSim(threshold))
                /\ \A m \in allowed :
                      ~SimGT(AnchorSim(face, seeds[m]), AnchorSim(face, seeds[j]))}}

\* the faces recluster_with_constraints has to place: the unverified members
\* of the clusters and the orphans
FacesToPlace(cs, orphans, ver) ==
    {UnverifiedFaces(cs, ver)[k][1] : k \in DOMAIN UnverifiedFaces(cs, ver)}
        \cup Range(orphans)

\* C24: after a successful recluster_with_constraints (default threshold), every
\* face that was an unverified member of a cluster or an orphan before the call
\* is a member of the anchor cluster, among those not in its negative
\* constraints, whose verified-only centroid is most similar to it when that
\* similarity is at least the threshold, and is in the orphan list otherwise.
C24_PlacedAtBestAnchor ==
    [][last'.op = "recluster_with_constraints" /\ last'.status = "success" =>
        \A face \in FacesToPlace(clusters, orphaned_faces, verified) :
            LET best == HighestAnchors(face, SeedClusters(clusters, verified),
                                       negative_constraints, DefaultReclusterThreshold)
            IN  IF best # {}
                THEN \E cluster_id \in best : InSeq(face, FacesOfCluster(clusters', cluster_id))
                ELSE InSeq(face, orphaned_faces')]_vars

\* the ids of a cluster list
IdsOf(cs) == {cs[i].cluster_id : i \in DOMAIN cs}

\* C25: whenever an operation removes a cluster from the cluster list because
\* it has no members left, or recluster_with_constraints drops a cluster that
\* has no verified member, the cluster's custom name binding is removed in the
\* same operation: afterwards no name is bound to a cluster that the operation
\* removed.
C25_NameGoesWithCluster ==
    [][last'.op \in {"verify_face", "recluster_with_constraints"} =>
        \A cluster_id \in IdsOf(clusters) \ IdsOf(clusters') :
            cluster_id \notin DOMAIN custom_names']_vars

\* C26: after a successful recluster_with_constraints every cluster of the list
\* holds at least one verified face, every cluster id was a cluster id before
\* the call, and clusters_after (the length of the new list) is at most
\* clusters_before (the length of the list at entry).
C26_AnchorsOnly ==
    [][last'.op = "recluster_with_constraints" /\ last'.status = "success" =>
        /\ \A i \in DOMAIN clusters' : Range(clusters'[i].faces) \cap verified' # {}
        /\ IdsOf(clusters') \subseteq IdsOf(clusters)
        /\ Len(clusters') <= Len(clusters)]_vars

\* a recluster has succeeded and left two anchor clusters, one of which has
\* taken an unverified face
C26_Witness ==
    /\ last.op = "recluster_with_constraints" /\ last.status = "success"
    /\ Len(clusters) >= 2
    /\ \E i \in DOMAIN clusters : Range(clusters[i].faces) \ verified # {}

\* the member sets of a cluster list by cluster id
MembersById(cs) == [cluster_id \in IdsOf(cs) |-> Range(FacesOfCluster(cs, cluster_id))]

\* C27: a second recluster_with_constraints at the same threshold, right after
\* a successful one, leaves the cluster memberships, the orphan list and the
\* verified flags as the first call left them (and so moves no face and places
\* no orphan).
C27_ReclusterIdempotent ==
    [][/\ last.op = "recluster_with_constraints" /\ last.status = "success"
       /\ last'.op = "recluster_with_constraints"
       => /\ last'.status = "success"
          /\ MembersById(clusters') = MembersById(clusters)
          /\ \A i \in DOMAIN clusters' :
                Len(clusters'[i].faces) = Cardinality(Range(clusters'[i].faces))
          /\ orphaned_faces' = orphaned_faces
          /\ verified' = verified]_vars

\* C28: when rejections have deleted every cluster and the stored faces exist
\* only as orphans, get_clusters, rename_cluster, merge_clusters and
\* verify_face leave the state as it is: the cluster list stays empty and no
\* orphaned face is put back into a cluster.
C28_OrphansStayOrphans ==
    [][/\ clusters = <<>>
       /\ faces # <<>>
       /\ \A k \in DOMAIN faces : InSeq(faces[k], orphaned_faces)
       /\ last'.op \in {"get_clusters", "rename_cluster", "merge_clusters", "verify_face"}
       => /\ clusters' = <<>>
          /\ UNCHANGED <<faces, orphaned_faces, negative_constraints, custom_names,
                         verified>>]_vars

\* the face ids of a member list
FaceIdsIn(fs) == {FaceIdOf(fs[k]) : k \in DOMAIN fs}

\* C29: a cluster_faces pass on the unchanged face list keeps the corrections
\* made just before it: after a successful merge_clusters(S, T) the faces of
\* the merged cluster are still together in one cluster, and a face that a
\* rejection re-homed is not a member of the cluster it was rejected from.
C29_CorrectionsSurvive ==
    [][last'.op = "cluster_faces" =>
        /\ (last.op = "merge_clusters" /\ last.status = "success") =>
              \E i \in DOMAIN clusters' :
                  FaceIdsIn(FacesOfCluster(clusters, last.other))
                      \subseteq FaceIdsIn(clusters'[i].faces)
        /\ (last.op = "verify_face" /\ last.status = "rejected" /\ last.other # NoCluster) =>
              last.face_id \notin FaceIdsIn(FacesOfCluster(clusters', last.cluster_id))]_vars

\* the scan_images executions that are past the guard of lines 714-715
ScansRunning ==
    {t \in ThreadIds :
        scan_thread[t].pc \in {"set", "filter", "detect", "after_detect", "embed", "finish"}}

\* C30: under any interleaving of start requests, at most one execution of
\* scan_images is past the is_scanning guard at a time, and a start request
\* made while a scan thread exists is answered "already_scanning" and leaves
\* the scan threads as they are.
C30_OneScanAtATime ==
    [][/\ Cardinality(ScansRunning') <= 1
       /\ (/\ last'.op = "start_face_scan" /\ calls' # calls
           /\ \E t \in ThreadIds : scan_thread[t].pc # "idle")
          => (last'.status = "already_scanning" /\ UNCHANGED scan_thread)]_vars
====
